---- MODULE Spec2Model ----
(***************************************************************************)
(* Model of packages/react/src/component.tsx: the label formatter, the     *)
(* permitted-file-info derivation and the UploadButton / UploadDropzone    *)
(* widgets.                                                                *)
(*                                                                         *)
(* JavaScript strings are sequences of one-character strings, so that      *)
(* charAt, slice, split, toUpperCase and template literals are computed    *)
(* character by character.  An optional value is a sequence of length at   *)
(* most one: <<>> is undefined, <<v>> is the value v.                      *)
(***************************************************************************)
EXTENDS Integers, Sequences, FiniteSets, TLC

\* ------------------------------------------------------------------------
\* Bounds
\* ------------------------------------------------------------------------
MaxKeys == 3
MaxCount == 2
MaxFiles == 2
MaxInFlight == 2
MaxProgressStep == 2

\* ------------------------------------------------------------------------
\* JavaScript primitives used by the source
\* ------------------------------------------------------------------------
Undefined == <<>>
Some(v) == <<v>>

LowerCase ==
  <<"a","b","c","d","e","f","g","h","i","j","k","l","m",
    "n","o","p","q","r","s","t","u","v","w","x","y","z">>
UpperCase ==
  <<"A","B","C","D","E","F","G","H","I","J","K","L","M",
    "N","O","P","Q","R","S","T","U","V","W","X","Y","Z">>

ToUpperChar(c) ==
  IF \E i \in 1..26 : LowerCase[i] = c
  THEN UpperCase[CHOOSE i \in 1..26 : LowerCase[i] = c]
  ELSE c

toUpperCase(str) == [i \in 1..Len(str) |-> ToUpperChar(str[i])]

\* String.prototype.charAt(0): the empty string when str is empty
charAt0(str) == IF Len(str) = 0 THEN <<>> ELSE <<str[1]>>

\* String.prototype.slice(1)
slice1(str) == SubSeq(str, 2, Len(str))

includes(str, c) == \E i \in 1..Len(str) : str[i] = c

\* position of the first c in str, Len(str) + 1 when there is none
IndexOf(str, c) ==
  IF includes(str, c)
  THEN CHOOSE i \in 1..Len(str) :
         str[i] = c /\ \A j \in 1..(i - 1) : str[j] # c
  ELSE Len(str) + 1

\* str.split(c)[1] for a str that contains c: the second piece
splitSecond(str, c) ==
  LET rest == SubSeq(str, IndexOf(str, c) + 1, Len(str))
  IN  SubSeq(rest, 1, IndexOf(rest, c) - 1)

RECURSIVE join(_, _)
join(arr, sep) ==
  IF Len(arr) = 0 THEN <<>>
  ELSE IF Len(arr) = 1 THEN arr[1]
  ELSE arr[1] \o sep \o join(Tail(arr), sep)

Digits == <<"0","1","2","3","4","5","6","7","8","9">>

\* `${n}` for a non-negative integer n
RECURSIVE NumberToString(_)
NumberToString(n) ==
  IF n < 10 THEN <<Digits[n + 1]>>
  ELSE NumberToString(n \div 10) \o <<Digits[(n % 10) + 1]>>

\* v && v > 1 on an optional number
TruthyAndGreaterThanOne(v) == v # Undefined /\ v[1] # 0 /\ v[1] > 1

\* ------------------------------------------------------------------------
\* Literals
\* ------------------------------------------------------------------------
S_slash == "/"
S_blob == <<"b","l","o","b">>
S_file == <<"f","i","l","e">>
S_space_file == <<" ","f","i","l","e">>
S_s == <<"s">>
S_s_comma == <<"s",","," ">>
S_and == <<" ","a","n","d"," ">>
S_s_up_to == <<"s"," ","u","p"," ","t","o"," ">>
S_max == <<","," ","m","a","x"," ">>
S_open == <<" ","(">>
S_close == <<")">>
S_undefined == <<"u","n","d","e","f","i","n","e","d">>

\* ------------------------------------------------------------------------
\* ExpandedRouteConfig: an ordered mapping, modelled as a sequence of
\* [key, maxFileSize, maxFileCount] entries with distinct keys.
\* ------------------------------------------------------------------------
ObjectKeys(entries) == [i \in 1..Len(entries) |-> entries[i].key]
ObjectValues(entries) ==
  [i \in 1..Len(entries) |->
     [maxFileSize |-> entries[i].maxFileSize,
      maxFileCount |-> entries[i].maxFileCount]]

\* mutant: multiple decided by the first entry alone
generatePermittedFileTypes_firstOnly(config) ==
  [fileTypes |-> IF config # Undefined THEN ObjectKeys(config[1]) ELSE <<>>,
   multiple |-> /\ config # Undefined
                /\ Len(config[1]) > 0
                /\ TruthyAndGreaterThanOne(config[1][1].maxFileCount)]

generatePermittedFileTypes(config) ==
  LET fileTypes == IF config # Undefined THEN ObjectKeys(config[1]) ELSE <<>>
      maxFileCount ==
        IF config # Undefined
        THEN [i \in 1..Len(config[1]) |-> ObjectValues(config[1])[i].maxFileCount]
        ELSE <<>>
  IN  [fileTypes |-> fileTypes,
       multiple |-> \E i \in 1..Len(maxFileCount) :
                      TruthyAndGreaterThanOne(maxFileCount[i])]

capitalizeStart(str) == toUpperCase(charAt0(str)) \o slice1(str)

\* mutant: "blob" is not replaced by "file"
formatType_keepBlob(f) ==
  IF includes(f, S_slash)
  THEN toUpperCase(splitSecond(f, S_slash)) \o S_space_file
  ELSE f

\* the display token of one key (the callback of allowedTypes.map)
formatType(f) ==
  IF includes(f, S_slash)
  THEN toUpperCase(splitSecond(f, S_slash)) \o S_space_file
  ELSE IF f = S_blob THEN S_file ELSE f

Returned(str) == [threw |-> FALSE, value |-> str]
\* TypeError: destructuring config[undefined], which is undefined
Thrown == [threw |-> TRUE, value |-> <<>>]

\* config[key]: the limits stored under key, undefined when there is none
\* (key itself is undefined when the config has no keys)
Lookup(entries, key) ==
  IF key # Undefined /\ \E i \in 1..Len(entries) : entries[i].key = key[1]
  THEN Some(entries[CHOOSE i \in 1..Len(entries) : entries[i].key = key[1]])
  ELSE Undefined

\* arr[0]
First(arr) == IF Len(arr) > 0 THEN Some(arr[1]) ELSE Undefined

\* arr.pop(): the removed last element (undefined on an empty array) and
\* the array that is left
pop(arr) ==
  IF Len(arr) = 0 THEN [removed |-> Undefined, left |-> <<>>]
  ELSE [removed |-> Some(arr[Len(arr)]), left |-> SubSeq(arr, 1, Len(arr) - 1)]

\* ${v} of an optional string
Interpolate(v) == IF v = Undefined THEN S_undefined ELSE v[1]

\* lines 50-51: the multi-type label
formatMultiType(formattedTypes) ==
  LET p == pop(formattedTypes)
  IN  Returned(join(p.left, S_s_comma) \o S_and \o Interpolate(p.removed) \o S_s)

\* lines 55-65: the single-type label
formatSingleType(entries, allowedTypes, formattedTypes) ==
  LET key == First(allowedTypes)
      formattedKey == First(formattedTypes)
      limits == Lookup(entries, key)
  IN  IF limits = Undefined
      THEN Thrown
      ELSE IF TruthyAndGreaterThanOne(limits[1].maxFileCount)
      THEN Returned(Interpolate(formattedKey) \o S_s_up_to \o limits[1].maxFileSize
                    \o S_max \o NumberToString(limits[1].maxFileCount[1]))
      ELSE Returned(Interpolate(formattedKey) \o S_open \o limits[1].maxFileSize
                    \o S_close)

formattedTypesOf(entries) ==
  [i \in 1..Len(entries) |-> formatType(ObjectKeys(entries)[i])]

\* mutant: the multi-type test written as length !== 1
INTERNAL_doFormatting_lengthNotOne(config) ==
  IF config = Undefined THEN Returned(<<>>)
  ELSE IF Len(formattedTypesOf(config[1])) # 1
       THEN formatMultiType(formattedTypesOf(config[1]))
       ELSE formatSingleType(config[1], ObjectKeys(config[1]),
                             formattedTypesOf(config[1]))

INTERNAL_doFormatting(config) ==
  IF config = Undefined THEN Returned(<<>>)
  ELSE IF Len(formattedTypesOf(config[1])) > 1
       THEN formatMultiType(formattedTypesOf(config[1]))
       ELSE formatSingleType(config[1], ObjectKeys(config[1]),
                             formattedTypesOf(config[1]))

allowedContentTextLabelGenerator(config) ==
  LET r == INTERNAL_doFormatting(config)
  IN  IF r.threw THEN r ELSE Returned(capitalizeStart(r.value))

\* ------------------------------------------------------------------------
\* Inputs of the formatter specification
\* ------------------------------------------------------------------------
K_image_png == <<"i","m","a","g","e","/","p","n","g">>
K_video_mp4 == <<"v","i","d","e","o","/","m","p","4">>
K_pdf == <<"p","d","f">>
Keys == {K_image_png, K_video_mp4, S_blob, K_pdf}

Size_4MB == <<"4","M","B">>
Size_16MB == <<"1","6","M","B">>
Sizes == {Size_4MB, Size_16MB}

Counts == {Undefined} \cup {Some(n) : n \in 0..MaxCount}

Limits == [maxFileSize : Sizes, maxFileCount : Counts]

Injective(f) == \A i, j \in DOMAIN f : i # j => f[i] # f[j]

\* the route config of keys ks (distinct) with limits ls
RouteConfigOf(ks, ls) ==
  [i \in DOMAIN ks |-> [key |-> ks[i],
                        maxFileSize |-> ls[i].maxFileSize,
                        maxFileCount |-> ls[i].maxFileCount]]

\* ------------------------------------------------------------------------
\* Inputs of the widget specification
\* ------------------------------------------------------------------------
\* File objects, by identity
FileIds == 1..MaxFiles

\* every list of distinct files of at most MaxFiles files
FileLists ==
  UNION {{l \in [1..n -> FileIds] : Injective(l)} : n \in 0..MaxFiles}

\* progress percentages the client reports
ProgressValues == {10 * i : i \in 0..MaxProgressStep}

\* results and errors of the client, by identity
Results == {"res1", "res2"}
Errors == {"err1", "err2"}

\* the props of the embedding application: which optional callbacks are
\* given, and the optional input payload
PropsInputs ==
  [onUploadProgress : BOOLEAN, onClientUploadComplete : BOOLEAN,
   onUploadError : BOOLEAN, input : {Undefined, Some("payload")}]

\* route configs the client delivers to a mounted widget: a single-file
\* route and a multi-file route
WidgetConfigs ==
  {Some(<<[key |-> K_image_png, maxFileSize |-> Size_4MB,
           maxFileCount |-> Undefined]>>),
   Some(<<[key |-> S_blob, maxFileSize |-> Size_16MB,
           maxFileCount |-> Some(MaxFiles)]>>)}

\* ------------------------------------------------------------------------
\* State
\* ------------------------------------------------------------------------
VARIABLES
  fmtConfig,          \* the config handed to the formatter and the derivation
  fmtPermitted,       \* result of generatePermittedFileTypes, once called
  fmtLabel,           \* result of allowedContentTextLabelGenerator, once called
  widget,             \* the mounted component: "UploadButton" or "UploadDropzone"
  props,              \* $props of the mounted component
  permittedFileInfo,  \* permittedFileInfo?.config of the hook, undefined until loaded
  isUploading,        \* isUploading of the hook
  inFlight,           \* startUpload calls of the hook that have not settled
  uploadProgress,     \* useState(0), lines 177 and 293
  files,              \* useState<File[]>([]) of UploadDropzone, line 288
  inputFiles,         \* the files held by the native input of UploadButton;
                      \* fileInputRef.current.value is "" iff this is empty
  lastEvent,          \* the handler that ran last, its argument and the
                      \* uploadProgress it started from
  startUploadCalls,   \* the startUpload calls made by the last handler
  callerCalls         \* the calls of caller-supplied callbacks made by the last handler

fmtVars == <<fmtConfig, fmtPermitted, fmtLabel>>
hookVars == <<permittedFileInfo, isUploading, inFlight>>
widgetVars ==
  <<widget, props, permittedFileInfo, isUploading, inFlight, uploadProgress,
    files, inputFiles, lastEvent, startUploadCalls, callerCalls>>
vars == <<fmtVars, widgetVars>>

NotCalled == <<>>

Event(name, arg) == [name |-> name, arg |-> arg, progressBefore |-> uploadProgress]

\* ------------------------------------------------------------------------
\* Derived on every render
\* ------------------------------------------------------------------------
\* lines 196-198 and 310
permitted == generatePermittedFileTypes(permittedFileInfo)
\* lines 200 and 317
ready == Len(permitted.fileTypes) > 0
\* line 237: the native picker hands over one file unless multiple is set
PickerLimit == IF permitted.multiple THEN MaxFiles ELSE 1
\* line 362: the "Upload N files" button is rendered
UploadTriggerRendered == Len(files) > 0
\* lines 241 and 376
inputOfProps == props.input

\* ------------------------------------------------------------------------
\* The useUploadThing hook (./useUploadThing)
\* ------------------------------------------------------------------------
\* the route config is delivered once after mount
HookConfigArrives(c) ==
  /\ widget # "none"
  /\ permittedFileInfo = Undefined
  /\ permittedFileInfo' = c
  /\ lastEvent' = Event("configArrives", <<>>)
  /\ startUploadCalls' = <<>>
  /\ callerCalls' = <<>>
  /\ UNCHANGED <<widget, props, isUploading, inFlight, uploadProgress, files,
                 inputFiles, fmtVars>>

\* startUpload(files, input): an upload is in flight and isUploading is set
HookStartUpload ==
  /\ inFlight < MaxInFlight
  /\ inFlight' = inFlight + 1
  /\ isUploading' = TRUE

\* an upload in flight reports progress
HookReportsProgress ==
  /\ inFlight > 0
  /\ UNCHANGED <<inFlight, isUploading>>

\* an upload in flight completes or fails: isUploading is cleared
HookSettles ==
  /\ inFlight > 0
  /\ inFlight' = inFlight - 1
  /\ isUploading' = FALSE

\* how a call of a caller-supplied callback ends
Outcomes == {"returns", "throws"}

\* a callback that is not given is not called and cannot throw
PossibleOutcome(given, outcome) == outcome = "throws" => given

\* optional caller callback: props.cb?.(arg), with the way the call ends
CallIfGiven(given, fn, arg, outcome) ==
  IF given THEN <<[fn |-> fn, arg |-> arg, outcome |-> outcome]>> ELSE <<>>

\* ------------------------------------------------------------------------
\* UploadButton
\* ------------------------------------------------------------------------
\* lines 239-245: onChange of the file input, enabled when ready
UploadButton_onChange(targetFiles) ==
  /\ widget = "UploadButton"
  /\ ready
  /\ targetFiles # Undefined =>
       /\ Len(targetFiles[1]) <= PickerLimit
       \* the browser fires change only when the selection changed
       /\ targetFiles[1] # inputFiles
  /\ lastEvent' = Event("onChange", targetFiles)
  /\ callerCalls' = <<>>
  /\ IF targetFiles = Undefined
     THEN /\ startUploadCalls' = <<>>
          /\ UNCHANGED <<inputFiles, inFlight, isUploading>>
     ELSE /\ inputFiles' = targetFiles[1]
          /\ startUploadCalls' = <<[files |-> targetFiles[1], input |-> inputOfProps]>>
          /\ HookStartUpload
  /\ UNCHANGED <<widget, props, permittedFileInfo, uploadProgress, files, fmtVars>>

\* lines 181-187: the input is cleared, then the caller's callback runs,
\* then the progress is reset; a callback that throws ends the handler
\* before setUploadProgress(0)
UploadButton_onClientUploadComplete(res, outcome) ==
  /\ widget = "UploadButton"
  /\ HookSettles
  /\ PossibleOutcome(props.onClientUploadComplete, outcome)
  /\ inputFiles' = <<>>
  /\ callerCalls' = CallIfGiven(props.onClientUploadComplete,
                                "onClientUploadComplete", res, outcome)
  /\ uploadProgress' = IF outcome = "throws" THEN uploadProgress ELSE 0
  /\ lastEvent' = Event("onClientUploadComplete", Some(res))
  /\ startUploadCalls' = <<>>
  /\ UNCHANGED <<widget, props, permittedFileInfo, files, fmtVars>>

\* lines 188-191: the progress is stored before the caller's callback runs
UploadButton_onUploadProgress(p, outcome) ==
  /\ widget = "UploadButton"
  /\ HookReportsProgress
  /\ PossibleOutcome(props.onUploadProgress, outcome)
  /\ uploadProgress' = p
  /\ callerCalls' = CallIfGiven(props.onUploadProgress, "onUploadProgress", p, outcome)
  /\ lastEvent' = Event("onUploadProgress", Some(p))
  /\ startUploadCalls' = <<>>
  /\ UNCHANGED <<widget, props, permittedFileInfo, files, inputFiles, fmtVars>>

\* line 192: the caller's onUploadError is handed to the hook as it is
UploadButton_onUploadError(e, outcome) ==
  /\ widget = "UploadButton"
  /\ HookSettles
  /\ PossibleOutcome(props.onUploadError, outcome)
  /\ callerCalls' = CallIfGiven(props.onUploadError, "onUploadError", e, outcome)
  /\ lastEvent' = Event("onUploadError", Some(e))
  /\ startUploadCalls' = <<>>
  /\ UNCHANGED <<widget, props, permittedFileInfo, uploadProgress, files,
                 inputFiles, fmtVars>>

\* ------------------------------------------------------------------------
\* UploadDropzone
\* ------------------------------------------------------------------------
\* mutant: a drop that starts the upload at once
UploadDropzone_onDrop_autoUpload(acceptedFiles) ==
  /\ widget = "UploadDropzone"
  /\ files' = acceptedFiles
  /\ lastEvent' = Event("onDrop", Some(acceptedFiles))
  /\ startUploadCalls' = <<[files |-> acceptedFiles, input |-> inputOfProps]>>
  /\ HookStartUpload
  /\ callerCalls' = <<>>
  /\ UNCHANGED <<widget, props, permittedFileInfo, uploadProgress, inputFiles,
                 fmtVars>>

\* lines 289-291
UploadDropzone_onDrop(acceptedFiles) ==
  /\ widget = "UploadDropzone"
  /\ files' = acceptedFiles
  /\ lastEvent' = Event("onDrop", Some(acceptedFiles))
  /\ startUploadCalls' = <<>>
  /\ callerCalls' = <<>>
  /\ UNCHANGED <<widget, props, hookVars, uploadProgress, inputFiles, fmtVars>>

\* lines 371-378: onClick of the "Upload N files" button
UploadDropzone_onClick ==
  /\ widget = "UploadDropzone"
  /\ UploadTriggerRendered
  /\ startUploadCalls' = <<[files |-> files, input |-> inputOfProps]>>
  /\ HookStartUpload
  /\ lastEvent' = Event("onClick", <<>>)
  /\ callerCalls' = <<>>
  /\ UNCHANGED <<widget, props, permittedFileInfo, uploadProgress, files,
                 inputFiles, fmtVars>>

\* lines 297-301: files is emptied, then the caller's callback runs, then
\* the progress is reset; a callback that throws ends the handler before
\* setUploadProgress(0)
UploadDropzone_onClientUploadComplete(res, outcome) ==
  /\ widget = "UploadDropzone"
  /\ HookSettles
  /\ PossibleOutcome(props.onClientUploadComplete, outcome)
  /\ files' = <<>>
  /\ callerCalls' = CallIfGiven(props.onClientUploadComplete,
                                "onClientUploadComplete", res, outcome)
  /\ uploadProgress' = IF outcome = "throws" THEN uploadProgress ELSE 0
  /\ lastEvent' = Event("onClientUploadComplete", Some(res))
  /\ startUploadCalls' = <<>>
  /\ UNCHANGED <<widget, props, permittedFileInfo, inputFiles, fmtVars>>

\* lines 302-305: the progress is stored before the caller's callback runs
UploadDropzone_onUploadProgress(p, outcome) ==
  /\ widget = "UploadDropzone"
  /\ HookReportsProgress
  /\ PossibleOutcome(props.onUploadProgress, outcome)
  /\ uploadProgress' = p
  /\ callerCalls' = CallIfGiven(props.onUploadProgress, "onUploadProgress", p, outcome)
  /\ lastEvent' = Event("onUploadProgress", Some(p))
  /\ startUploadCalls' = <<>>
  /\ UNCHANGED <<widget, props, permittedFileInfo, files, inputFiles, fmtVars>>

\* line 306: the caller's onUploadError is handed to the hook as it is
UploadDropzone_onUploadError(e, outcome) ==
  /\ widget = "UploadDropzone"
  /\ HookSettles
  /\ PossibleOutcome(props.onUploadError, outcome)
  /\ callerCalls' = CallIfGiven(props.onUploadError, "onUploadError", e, outcome)
  /\ lastEvent' = Event("onUploadError", Some(e))
  /\ startUploadCalls' = <<>>
  /\ UNCHANGED <<widget, props, permittedFileInfo, uploadProgress, files,
                 inputFiles, fmtVars>>

\* ------------------------------------------------------------------------
\* Widget specification: one mounted UploadButton or UploadDropzone
\* ------------------------------------------------------------------------
FmtIdle ==
  /\ fmtConfig = Undefined
  /\ fmtPermitted = NotCalled
  /\ fmtLabel = NotCalled

WidgetInitialState ==
  /\ permittedFileInfo = Undefined
  /\ isUploading = FALSE
  /\ inFlight = 0
  /\ uploadProgress = 0
  /\ files = <<>>
  /\ inputFiles = <<>>
  /\ lastEvent = [name |-> "mount", arg |-> <<>>, progressBefore |-> 0]
  /\ startUploadCalls = <<>>
  /\ callerCalls = <<>>

Init ==
  /\ widget \in {"UploadButton", "UploadDropzone"}
  /\ props \in PropsInputs
  /\ WidgetInitialState
  /\ FmtIdle

Next ==
  \/ \E c \in WidgetConfigs : HookConfigArrives(c)
  \/ \E l \in {Undefined} \cup {Some(fl) : fl \in FileLists} : UploadButton_onChange(l)
  \/ \E res \in Results, o \in Outcomes : UploadButton_onClientUploadComplete(res, o)
  \/ \E p \in ProgressValues, o \in Outcomes : UploadButton_onUploadProgress(p, o)
  \/ \E e \in Errors, o \in Outcomes : UploadButton_onUploadError(e, o)
  \/ \E l \in FileLists : UploadDropzone_onDrop(l)
  \/ UploadDropzone_onClick
  \/ \E res \in Results, o \in Outcomes : UploadDropzone_onClientUploadComplete(res, o)
  \/ \E p \in ProgressValues, o \in Outcomes : UploadDropzone_onUploadProgress(p, o)
  \/ \E e \in Errors, o \in Outcomes : UploadDropzone_onUploadError(e, o)

Spec == Init /\ [][Next]_vars

\* ------------------------------------------------------------------------
\* Formatter specification: one render of a widget for a given config
\* (line 196 / 310, then line 270 / 359)
\* ------------------------------------------------------------------------
FmtInit ==
  /\ \/ fmtConfig = Undefined
     \/ \E n \in 0..MaxKeys :
          \E ks \in [1..n -> Keys] :
            \E ls \in [1..n -> Limits] :
              /\ Injective(ks)
              /\ fmtConfig = Some(RouteConfigOf(ks, ls))
  /\ fmtPermitted = NotCalled
  /\ fmtLabel = NotCalled
  /\ widget = "none"
  /\ props = [onUploadProgress |-> FALSE, onClientUploadComplete |-> FALSE,
              onUploadError |-> FALSE, input |-> Undefined]
  /\ WidgetInitialState

CallGeneratePermittedFileTypes ==
  /\ fmtPermitted = NotCalled
  /\ fmtPermitted' = Some(generatePermittedFileTypes(fmtConfig))
  /\ UNCHANGED <<fmtConfig, fmtLabel, widgetVars>>

CallAllowedContentTextLabelGenerator ==
  /\ fmtPermitted # NotCalled
  /\ fmtLabel = NotCalled
  /\ fmtLabel' = Some(allowedContentTextLabelGenerator(fmtConfig))
  /\ UNCHANGED <<fmtConfig, fmtPermitted, widgetVars>>

FmtNext ==
  \/ CallGeneratePermittedFileTypes
  \/ CallAllowedContentTextLabelGenerator

FmtSpec == FmtInit /\ [][FmtNext]_vars

\* ------------------------------------------------------------------------
\* Claims about the widgets (specification Spec)
\* ------------------------------------------------------------------------
NoFilesAttached(arg) == IF arg = Undefined THEN TRUE ELSE arg[1] = <<>>

CallerCalledOnceWith(given, fn, arg) ==
  IF given
  THEN /\ Len(callerCalls) = 1
       /\ callerCalls[1].fn = fn
       /\ callerCalls[1].arg = arg
  ELSE callerCalls = <<>>

\* C1: at most one upload is in flight per widget: while isUploading is true
\* no handler makes a startUpload call, so never more than one call of
\* startUpload is unsettled.
C1_AtMostOneUploadInFlight ==
  [][/\ isUploading => startUploadCalls' = <<>>
     /\ inFlight' <= 1]_vars

\* C2: when the completion callback fires, uploadProgress is 0, the
\* Dropzone's files list is empty, the Button's native input is cleared, and
\* the caller's onClientUploadComplete, if given, was invoked exactly once
\* with the same result (and not at all if it is not given), however the
\* callback's call ends.
C2_CompletionResetsWidget ==
  lastEvent.name = "onClientUploadComplete" =>
    /\ uploadProgress = 0
    /\ widget = "UploadDropzone" => files = <<>>
    /\ widget = "UploadButton" => inputFiles = <<>>
    /\ CallerCalledOnceWith(props.onClientUploadComplete,
                            "onClientUploadComplete", lastEvent.arg[1])

\* C3: when the error callback fires, the caller's onUploadError is invoked
\* with the same error, uploadProgress is reset to 0 and the widget is not
\* uploading.
C3_ErrorResetsProgress ==
  lastEvent.name = "onUploadError" =>
    /\ CallerCalledOnceWith(props.onUploadError, "onUploadError", lastEvent.arg[1])
    /\ uploadProgress = 0
    /\ ~isUploading

\* C7: right after an upload completion or a new file selection (a change of
\* the Button's input that carries files, a drop on the Dropzone)
\* uploadProgress is 0.
C7_ProgressZeroAfterCompletionOrSelection ==
  (\/ lastEvent.name \in {"onClientUploadComplete", "onDrop"}
   \/ lastEvent.name = "onChange" /\ ~NoFilesAttached(lastEvent.arg))
    => uploadProgress = 0

\* C8 as stated: in UploadDropzone a drop only replaces files and starts no
\* upload; startUpload is called only by a click on the trigger, which is
\* rendered only while files is non-empty, with the retained list; progress
\* and error callbacks leave files unchanged; files becomes empty only by the
\* completion callback.
C8_FilesEmptiedOnlyByCompletion ==
  [][widget = "UploadDropzone" =>
       /\ lastEvent'.name = "onDrop" =>
            /\ files' = lastEvent'.arg[1]
            /\ startUploadCalls' = <<>>
            /\ inFlight' = inFlight
       /\ startUploadCalls' # <<>> =>
            /\ lastEvent'.name = "onClick"
            /\ Len(files) > 0
            /\ startUploadCalls' = <<[files |-> files, input |-> props.input]>>
       /\ lastEvent'.name \in {"onUploadProgress", "onUploadError"} => files' = files
       /\ (files # <<>> /\ files' = <<>>) =>
            lastEvent'.name = "onClientUploadComplete"]_vars

\* C8 as amended: as above, but files becomes empty by the completion
\* callback or by a drop that carries no accepted files.
C8_FilesEmptiedByCompletionOrEmptyDrop ==
  [][widget = "UploadDropzone" =>
       /\ lastEvent'.name = "onDrop" =>
            /\ files' = lastEvent'.arg[1]
            /\ startUploadCalls' = <<>>
            /\ inFlight' = inFlight
       /\ startUploadCalls' # <<>> =>
            /\ lastEvent'.name = "onClick"
            /\ Len(files) > 0
            /\ startUploadCalls' = <<[files |-> files, input |-> props.input]>>
       /\ lastEvent'.name \in {"onUploadProgress", "onUploadError"} => files' = files
       /\ (files # <<>> /\ files' = <<>>) =>
            \/ lastEvent'.name = "onClientUploadComplete"
            \/ lastEvent'.name = "onDrop" /\ lastEvent'.arg[1] = <<>>]_vars

C8_Witness ==
  /\ widget = "UploadDropzone"
  /\ lastEvent.name = "onClick"
  /\ Len(files) = MaxFiles
  /\ props.input # Undefined
  /\ startUploadCalls = <<[files |-> files, input |-> props.input]>>
  /\ inFlight = 1

\* C9: a change event of the Button's input that carries no files (a null
\* file list or an empty one) is a no-op: no startUpload call, no caller
\* callback, uploadProgress and isUploading unchanged.
C9_ChangeWithoutFilesIsNoOp ==
  [][(lastEvent'.name = "onChange" /\ NoFilesAttached(lastEvent'.arg)) =>
       /\ startUploadCalls' = <<>>
       /\ callerCalls' = <<>>
       /\ uploadProgress' = uploadProgress
       /\ isUploading' = isUploading
       /\ inFlight' = inFlight]_vars

\* ------------------------------------------------------------------------
\* Claims about the formatter (specification FmtSpec)
\* ------------------------------------------------------------------------
\* the token of key k as the claims state it
ClaimToken(k) ==
  IF includes(k, S_slash)
  THEN toUpperCase(SubSeq(k, IndexOf(k, S_slash) + 1, Len(k))) \o S_space_file
  ELSE IF k = S_blob THEN S_file ELSE k

\* "<t1>s, <t2>s, ... and <tn>s"
RECURSIVE ClaimPluralList(_)
ClaimPluralList(tokens) ==
  IF Len(tokens) = 1 THEN tokens[1] \o S_s
  ELSE IF Len(tokens) = 2 THEN tokens[1] \o S_s \o S_and \o tokens[2] \o S_s
  ELSE tokens[1] \o S_s_comma \o ClaimPluralList(Tail(tokens))

ClaimCapitalize(str) ==
  IF Len(str) = 0 THEN str ELSE <<ToUpperChar(str[1])>> \o Tail(str)

\* C4: for a config of two or more keys the label is
\* "<t1>s, <t2>s, ... and <tn>s" with its first character upper-cased.
C4_MultiTypeLabel ==
  (fmtLabel # NotCalled /\ fmtConfig # Undefined /\ Len(fmtConfig[1]) >= 2) =>
    /\ ~fmtLabel[1].threw
    /\ fmtLabel[1].value =
         ClaimCapitalize(ClaimPluralList(
           [i \in 1..Len(fmtConfig[1]) |-> ClaimToken(fmtConfig[1][i].key)]))

\* C5: for a config of exactly one key k the label is
\* capitalize(token(k)) + "s up to " + maxFileSize + ", max " + maxFileCount
\* when maxFileCount > 1, and capitalize(token(k)) + " (" + maxFileSize + ")"
\* when maxFileCount is absent or <= 1.
C5_SingleTypeLabel ==
  (fmtLabel # NotCalled /\ fmtConfig # Undefined /\ Len(fmtConfig[1]) = 1) =>
    LET e == fmtConfig[1][1]
        t == ClaimCapitalize(ClaimToken(e.key))
    IN  /\ ~fmtLabel[1].threw
        /\ IF e.maxFileCount # Undefined /\ e.maxFileCount[1] > 1
           THEN fmtLabel[1].value =
                  t \o S_s_up_to \o e.maxFileSize \o S_max
                    \o NumberToString(e.maxFileCount[1])
           ELSE fmtLabel[1].value = t \o S_open \o e.maxFileSize \o S_close

C5_Witness ==
  /\ fmtLabel # NotCalled
  /\ fmtConfig = Some(<<[key |-> S_blob, maxFileSize |-> Size_16MB,
                         maxFileCount |-> Some(MaxCount)]>>)
  /\ fmtLabel[1].value =
       <<"F","i","l","e","s"," ","u","p"," ","t","o"," ","1","6","M","B",
         ","," ","m","a","x"," ">> \o NumberToString(MaxCount)

\* C6: multiple is true iff some entry has a maxFileCount greater than 1;
\* for an absent or empty config multiple is false and fileTypes is empty;
\* otherwise fileTypes is the config's keys in mapping order.
C6_PermittedFileTypes ==
  fmtPermitted # NotCalled =>
    LET r == fmtPermitted[1]
        entries == IF fmtConfig = Undefined THEN <<>> ELSE fmtConfig[1]
    IN  /\ r.multiple <=>
             \E i \in 1..Len(entries) :
               /\ entries[i].maxFileCount # Undefined
               /\ entries[i].maxFileCount[1] > 1
        /\ Len(entries) = 0 => (~r.multiple /\ r.fileTypes = <<>>)
        /\ Len(r.fileTypes) = Len(entries)
        /\ \A i \in 1..Len(entries) : r.fileTypes[i] = entries[i].key

C6_Witness ==
  /\ fmtPermitted # NotCalled
  /\ fmtConfig # Undefined
  /\ Len(fmtConfig[1]) = 2
  /\ fmtConfig[1][1].maxFileCount = Undefined
  /\ fmtConfig[1][2].maxFileCount = Some(MaxCount)
  /\ fmtPermitted[1].multiple
  /\ fmtPermitted[1].fileTypes = <<K_video_mp4, K_image_png>>

\* C10: for a config that is present but has no keys the label formatter
\* fails with an error instead of returning a label, whereas for an absent
\* config it returns the empty string.
C10_EmptyConfigThrows ==
  fmtLabel # NotCalled =>
    /\ (fmtConfig # Undefined /\ Len(fmtConfig[1]) = 0) => fmtLabel[1].threw
    /\ fmtConfig = Undefined => fmtLabel[1] = [threw |-> FALSE, value |-> <<>>]

C10_Witness ==
  /\ fmtLabel # NotCalled
  /\ fmtConfig = Some(<<>>)
  /\ fmtLabel[1].threw

====
